---- MODULE Spec2Model ----
(***************************************************************************)
(* The goal / milestone / task store of the Skill Learning Coach server    *)
(* (src/src/server.py) and the seven tools that read and write it.         *)
(*                                                                         *)
(* Every tool opens a session, queries, writes, commits (possibly twice)   *)
(* and closes the session.  A tool is one action; the database call at     *)
(* which the storage engine raises, if any, is an input of the action      *)
(* (fault = 0: no call raises; fault = k: the k-th database call raises).  *)
(* What was committed before the raising call stays in the store, what was *)
(* only added to the session is rolled back.  The variable last holds the  *)
(* latest call, its arguments and the result it returned.                  *)
(*                                                                         *)
(* The section on concurrent calls has the same tools one database call    *)
(* per step, for the calls that several workers serve at once.             *)
(***************************************************************************)
EXTENDS Integers, Sequences, FiniteSets, TLC

(***************************************************************************)
(* Bounds of the model.                                                    *)
(***************************************************************************)
MaxUsers == 2
MaxGoals == 2
MaxTasks == 1
MaxNewTasks == 2
MaxCtxTasks == 6
MaxOtherTasks == 1
MaxTime == 3
MaxSameTime == 2
MaxCalls == 2
MaxCallGoals == 1

(***************************************************************************)
(* Python None / SQL NULL.  Integer columns (ids, timestamps) use NULL,    *)
(* text columns and optional text arguments use None.  Ids and timestamps  *)
(* start at 1.                                                             *)
(***************************************************************************)
NULL == 0
None == "None"

(***************************************************************************)
(* JSON values.  A value is a record with a kind; a list carries its items *)
(* and a dict carries the keys the tools look at, NoKey standing for a key *)
(* the dict does not have.                                                 *)
(***************************************************************************)
NoKey == "<no key>"

JDict(title, description, tone) ==
    [kind |-> "dict", items |-> <<>>, title |-> title,
     description |-> description, tone |-> tone]

JList(items) ==
    [kind |-> "list", items |-> items, title |-> NoKey,
     description |-> NoKey, tone |-> NoKey]

JInt == [kind |-> "int", items |-> <<>>, title |-> NoKey,
         description |-> NoKey, tone |-> NoKey]

JNull == [kind |-> "null", items |-> <<>>, title |-> NoKey,
          description |-> NoKey, tone |-> NoKey]

\* raised by json.loads on a text that is no JSON document
JSONDecodeError == [kind |-> "JSONDecodeError", items |-> <<>>, title |-> NoKey,
                    description |-> NoKey, tone |-> NoKey]

\* an argument is either a text (a str) or an already structured value
Text(s) == [isText |-> TRUE, text |-> s, value |-> JNull]
Value(v) == [isText |-> FALSE, text |-> "", value |-> v]
\* an optional argument that was not supplied
Absent == [isText |-> FALSE, text |-> None, value |-> JNull]

\* json.loads on the texts the model supplies
JsonLoads(s) ==
    CASE s = "[]" -> JList(<<>>)
      [] s = "[{\"title\": \"Chords\"}]" ->
             JList(<<JDict("Chords", NoKey, NoKey)>>)
      [] s = "[{\"description\": \"strum\"}, {\"title\": \"Songs\", \"description\": \"play\"}]" ->
             JList(<<JDict(NoKey, "strum", NoKey), JDict("Songs", "play", NoKey)>>)
      [] s = "[{\"title\": \"Chords\"}, 7]" ->
             JList(<<JDict("Chords", NoKey, NoKey), JInt>>)
      [] s = "7" -> JInt
      [] s = "{}" -> JDict(NoKey, NoKey, NoKey)
      [] s = "{\"tone\": \"brief\"}" -> JDict(NoKey, NoKey, "brief")
      [] s = "{\"tone\": \"warm\"}" -> JDict(NoKey, NoKey, "warm")
      [] OTHER -> JSONDecodeError

\* json.loads(x) if isinstance(x, str) else x
LoadsIfStr(arg) == IF arg.isText THEN JsonLoads(arg.text) ELSE arg.value

\* Python truth value of an optional text-or-structured argument
Truthy(arg) ==
    IF arg = Absent THEN FALSE
    ELSE IF arg.isText THEN arg.text # ""
    ELSE CASE arg.value.kind = "null" -> FALSE
           [] arg.value.kind = "list" -> arg.value.items # <<>>
           [] arg.value.kind = "dict" ->
                  ~(arg.value.title = NoKey /\ arg.value.description = NoKey
                    /\ arg.value.tone = NoKey)
           [] OTHER -> TRUE

\* dict.get(key, default) on a JSON dict, the value of the key being given
DictGet(held, default) == IF held = NoKey THEN default ELSE held

(***************************************************************************)
(* The store: one sequence per table, the row with id i at index i (ids    *)
(* are assigned in insertion order and no row is ever deleted).            *)
(***************************************************************************)
VARIABLES users, goals, milestones, tasks, verifications, now, last,
          inflight, sessions

vars == <<users, goals, milestones, tasks, verifications, now, last,
          inflight, sessions>>
store == <<users, goals, milestones, tasks, verifications>>

Ids(table) == 1..Len(table)

\* the message of a storage fault, str(e)
StorageFault == "storage fault"

Error(msg) == [error |-> msg]

\* what a call leaves for its caller: the call with its result
Returned(call, result) == call @@ [result |-> result]

\* For the concurrent calls (see below) inflight holds, for every worker
\* that serves requests, the call it is in: its position, its arguments, its
\* locals and the result it is about to return; sessions counts the sessions
\* of SessionLocal that are open.  The specifications that run one call at a
\* time leave both alone and record the call in last.
Procs == 1..MaxCalls

Idle == [pc |-> "idle"]

Init ==
    /\ users = <<>>
    /\ goals = <<>>
    /\ milestones = <<>>
    /\ tasks = <<>>
    /\ verifications = <<>>
    /\ now = 1
    /\ last = [op |-> "none", result |-> Error(None)]
    /\ inflight = [p \in Procs |-> Idle]
    /\ sessions = 0

(***************************************************************************)
(* create_user                                                             *)
(***************************************************************************)
\* the lookup with "and" in place of "or"
ExistingUserBoth(username, email) ==
    {u \in Ids(users) : users[u].username = username /\ users[u].email = email}

\* db.query(User).filter((User.username == username) | (User.email == email)).first()
ExistingUser(username, email) ==
    {u \in Ids(users) : users[u].username = username \/ users[u].email = email}

UserProjection(id, u) ==
    [error |-> None, user_id |-> id, username |-> u.username, email |-> u.email,
     learning_style |-> u.learning_style]

\* database calls: 1 query, 2 commit, 3 refresh
CreateUser(username, email, learning_style, fault) ==
    LET user == [username |-> username, email |-> email,
                 learning_style |-> learning_style]
        call == [op |-> "create_user", username |-> username,
                 email |-> email, learning_style |-> learning_style]
    IN
    /\ fault \in 0..3
    /\ IF fault = 1 THEN
           /\ last' = Returned(call, Error(StorageFault))
           /\ UNCHANGED users
       ELSE IF ExistingUser(username, email) # {} THEN
           /\ last' = Returned(call, Error("Username or email already exists"))
           /\ UNCHANGED users
       ELSE IF fault = 2 THEN
           /\ last' = Returned(call, Error(StorageFault))
           /\ UNCHANGED users
       ELSE
           /\ users' = Append(users, user)
           /\ last' = Returned(call, IF fault = 3 THEN Error(StorageFault)
                          ELSE UserProjection(Len(users) + 1, user))
    /\ UNCHANGED <<goals, milestones, tasks, verifications, now, inflight, sessions>>

(***************************************************************************)
(* update_user                                                             *)
(***************************************************************************)
\* database calls: 1 query, 2 commit, 3 refresh
UpdateUser(user_id, learning_style, fault) ==
    LET call == [op |-> "update_user", user_id |-> user_id,
                 learning_style |-> learning_style]
    IN
    /\ fault \in 0..3
    /\ IF fault = 1 THEN
           /\ last' = Returned(call, Error(StorageFault))
           /\ UNCHANGED users
       ELSE IF user_id \notin Ids(users) THEN
           /\ last' = Returned(call, Error("User not found"))
           /\ UNCHANGED users
       ELSE IF fault = 2 THEN
           /\ last' = Returned(call, Error(StorageFault))
           /\ UNCHANGED users
       ELSE
           /\ users' = [users EXCEPT ![user_id].learning_style = learning_style]
           /\ last' = Returned(call, IF fault = 3 THEN Error(StorageFault)
                          ELSE UserProjection(user_id, users'[user_id]))
    /\ UNCHANGED <<goals, milestones, tasks, verifications, now, inflight, sessions>>

(***************************************************************************)
(* create_goal                                                             *)
(***************************************************************************)
\* column defaults of a new Milestone row
DefaultIsComplete == FALSE
DefaultCompletedAt == NULL

\* the milestone with order=idx, the 0-based position
NewMilestoneZeroBased(goal_id, idx, milestone_input) ==
    [goal_id |-> goal_id,
     title |-> DictGet(milestone_input.title, "Milestone " \o ToString(idx)),
     description |-> DictGet(milestone_input.description, ""),
     order |-> idx - 1,
     is_complete |-> DefaultIsComplete,
     completed_at |-> DefaultCompletedAt]

\* Milestone(goal_id=..., title=..., description=..., order=idx + 1)
NewMilestone(goal_id, idx, milestone_input) ==
    [goal_id |-> goal_id,
     title |-> DictGet(milestone_input.title, "Milestone " \o ToString(idx)),
     description |-> DictGet(milestone_input.description, ""),
     order |-> idx,
     is_complete |-> DefaultIsComplete,
     completed_at |-> DefaultCompletedAt]

\* what enumerate(roadmap_list) yields: the items of a list, the keys of a
\* dict (texts, not records); any other value is not iterable
Iterable(v) == v.kind \in {"list", "dict"}

Entries(v) ==
    IF v.kind = "list" THEN v.items
    ELSE SelectSeq(<<v.title, v.description, v.tone>>, LAMBDA k : k # NoKey)

\* milestone_input.get exists on a dict only
HasGet(v, i) == v.kind = "list" /\ v.items[i].kind = "dict"

\* the loop over the roadmap completes iff the value is iterable and every
\* entry is a dict; otherwise it raises (TypeError, AttributeError)
LoopCompletes(v) ==
    /\ Iterable(v)
    /\ \A i \in 1..Len(Entries(v)) : HasGet(v, i)

\* str(e) of the TypeError or AttributeError the loop raises
LoopError(v) ==
    IF Iterable(v) THEN "object has no attribute 'get'"
    ELSE "object is not iterable"

RoadmapMilestones(goal_id, v) ==
    [i \in 1..Len(v.items) |-> NewMilestone(goal_id, i, v.items[i])]

GoalSummary(id, g, count) ==
    [error |-> None, goal_id |-> id, skill_name |-> g.skill_name,
     timeline |-> g.timeline, milestones_count |-> count]

\* database calls: 1 query, 2 commit of the goal, 3 refresh, 4 commit of the
\* milestones, 5 reload of the goal, expired by the commit, when the result
\* reads goal.id
CreateGoal(user_id, skill_name, timeline, roadmap, coach_notes, fault) ==
    LET call == [op |-> "create_goal", user_id |-> user_id,
                 skill_name |-> skill_name, timeline |-> timeline,
                 roadmap |-> roadmap, coach_notes |-> coach_notes]
        roadmap_list == LoadsIfStr(roadmap)
        coach_notes_dict == IF Truthy(coach_notes) THEN LoadsIfStr(coach_notes)
                            ELSE JNull
        goal == [user_id |-> user_id, skill_name |-> skill_name,
                 timeline |-> timeline, coach_notes |-> coach_notes_dict]
        goal_id == Len(goals) + 1
    IN
    /\ fault \in 0..5
    /\ IF fault = 1 THEN
           /\ last' = Returned(call, Error(StorageFault))
           /\ UNCHANGED <<goals, milestones>>
       ELSE IF user_id \notin Ids(users) THEN
           /\ last' = Returned(call, Error("User not found"))
           /\ UNCHANGED <<goals, milestones>>
       ELSE IF roadmap_list = JSONDecodeError THEN
           /\ last' = Returned(call, Error("Invalid roadmap JSON format"))
           /\ UNCHANGED <<goals, milestones>>
       ELSE IF coach_notes_dict = JSONDecodeError THEN
           /\ last' = Returned(call, Error("Invalid coach_notes JSON format"))
           /\ UNCHANGED <<goals, milestones>>
       ELSE IF fault = 2 THEN
           /\ last' = Returned(call, Error(StorageFault))
           /\ UNCHANGED <<goals, milestones>>
       ELSE
           \* the goal row is committed here
           /\ goals' = Append(goals, goal)
           /\ IF fault = 3 THEN
                  /\ last' = Returned(call, Error(StorageFault))
                  /\ UNCHANGED milestones
              ELSE IF ~LoopCompletes(roadmap_list) THEN
                  \* the exception is caught, the milestones added so far are
                  \* rolled back
                  /\ last' = Returned(call, Error(LoopError(roadmap_list)))
                  /\ UNCHANGED milestones
              ELSE IF fault = 4 THEN
                  /\ last' = Returned(call, Error(StorageFault))
                  /\ UNCHANGED milestones
              ELSE
                  /\ milestones' = milestones \o RoadmapMilestones(goal_id, roadmap_list)
                  /\ last' = Returned(call,
                                IF fault = 5 THEN Error(StorageFault)
                                ELSE GoalSummary(goal_id, goal,
                                                 Len(Entries(roadmap_list))))
    /\ UNCHANGED <<users, tasks, verifications, now, inflight, sessions>>

(***************************************************************************)
(* Queries with ORDER BY.  The store returns rows with equal keys in an    *)
(* order it chooses: OrderBy is the set of all the orders it may return.   *)
(***************************************************************************)
RECURSIVE OrderBy(_, _)
OrderBy(rows, key) ==
    IF rows = {} THEN {<<>>}
    ELSE UNION {{<<r>> \o rest : rest \in OrderBy(rows \ {r}, key)} :
                  r \in {x \in rows : \A y \in rows : key[x] <= key[y]}}

\* .limit(n)
Limit(rows, n) == SubSeq(rows, 1, IF Len(rows) < n THEN Len(rows) ELSE n)

\* .first(): the first row or None
First(orders) == IF orders = {<<>>} THEN {NULL} ELSE {o[1] : o \in orders}

(***************************************************************************)
(* get_context                                                             *)
(***************************************************************************)
ContextLimit == 5

\* datetime.isoformat()
IsoFormat(t) == "2025-01-01T00:00:0" \o ToString(t)

\* the query with completed_at ascending
LastCompletedOldestFirst(goal_id) ==
    {Limit(o, ContextLimit) :
        o \in OrderBy({t \in Ids(tasks) : /\ tasks[t].goal_id = goal_id
                                          /\ tasks[t].status = "COMPLETE"},
                      [t \in Ids(tasks) |-> tasks[t].completed_at])}

\* filter(Task.goal_id == goal_id, Task.status == TaskStatus.COMPLETE)
\*   .order_by(Task.completed_at.desc()).limit(5).all()
LastCompleted(goal_id) ==
    {Limit(o, ContextLimit) :
        o \in OrderBy({t \in Ids(tasks) : /\ tasks[t].goal_id = goal_id
                                          /\ tasks[t].status = "COMPLETE"},
                      [t \in Ids(tasks) |-> 0 - tasks[t].completed_at])}

\* the query with Task.status == TaskStatus.INCOMPLETE alone
CurrentIncompleteNotStarted(goal_id) ==
    OrderBy({t \in Ids(tasks) : /\ tasks[t].goal_id = goal_id
                                /\ tasks[t].status = "INCOMPLETE"},
            [t \in Ids(tasks) |-> tasks[t].created_at])

\* filter(Task.goal_id == goal_id,
\*        Task.status.in_([TaskStatus.INCOMPLETE, TaskStatus.IN_PROGRESS]))
\*   .order_by(Task.created_at.asc()).all()
CurrentIncomplete(goal_id) ==
    OrderBy({t \in Ids(tasks) : /\ tasks[t].goal_id = goal_id
                                /\ tasks[t].status \in {"INCOMPLETE", "IN_PROGRESS"}},
            [t \in Ids(tasks) |-> tasks[t].created_at])

\* the query without its filter on the goal
RoadmapOfAllGoals(goal_id) ==
    OrderBy(Ids(milestones), [m \in Ids(milestones) |-> milestones[m].order])

\* filter(Milestone.goal_id == goal_id).order_by(Milestone.order).all()
Roadmap(goal_id) ==
    OrderBy({m \in Ids(milestones) : milestones[m].goal_id = goal_id},
            [m \in Ids(milestones) |-> milestones[m].order])

TaskSummary(t) ==
    [task_id |-> t, title |-> tasks[t].title, description |-> tasks[t].description,
     status |-> tasks[t].status,
     completed_at |-> IF tasks[t].completed_at # NULL
                      THEN IsoFormat(tasks[t].completed_at) ELSE None]

MilestoneSummary(m) ==
    [milestone_id |-> m, title |-> milestones[m].title,
     description |-> milestones[m].description, order |-> milestones[m].order,
     is_complete |-> milestones[m].is_complete]

ContextSnapshot(goal_id, last_completed, current_incomplete, roadmap) ==
    [error |-> None,
     goal_id |-> goal_id,
     skill_name |-> goals[goal_id].skill_name,
     learning_style |-> IF goals[goal_id].user_id \in Ids(users)
                        THEN users[goals[goal_id].user_id].learning_style
                        ELSE None,
     last_completed_tasks |->
        [i \in 1..Len(last_completed) |-> TaskSummary(last_completed[i])],
     current_incomplete_tasks |->
        [i \in 1..Len(current_incomplete) |-> TaskSummary(current_incomplete[i])],
     roadmap |-> [i \in 1..Len(roadmap) |-> MilestoneSummary(roadmap[i])],
     coach_notes |-> goals[goal_id].coach_notes]

\* database calls: 1 goal, 2 completed tasks, 3 incomplete tasks, 4 milestones,
\* 5 user; nothing is written, so a fault only changes the result
GetContext(goal_id, fault) ==
    LET call == [op |-> "get_context", goal_id |-> goal_id]
    IN
    /\ fault \in 0..5
    /\ IF fault = 1 THEN
           last' = Returned(call, Error(StorageFault))
       ELSE IF goal_id \notin Ids(goals) THEN
           last' = Returned(call, Error("Goal not found"))
       ELSE IF fault # 0 THEN
           last' = Returned(call, Error(StorageFault))
       ELSE
           \E last_completed \in LastCompleted(goal_id),
              current_incomplete \in CurrentIncomplete(goal_id),
              roadmap \in Roadmap(goal_id) :
              last' = Returned(call, ContextSnapshot(goal_id, last_completed,
                                                     current_incomplete, roadmap))
    /\ UNCHANGED <<users, goals, milestones, tasks, verifications, now, inflight, sessions>>

(***************************************************************************)
(* update_goal                                                             *)
(***************************************************************************)
GoalProjection(id, g) ==
    [error |-> None, goal_id |-> id, skill_name |-> g.skill_name,
     timeline |-> g.timeline, coach_notes |-> g.coach_notes]

\* the update that assigns every argument, supplied or not
UpdatedGoalAssignsAll(old, skill_name, timeline, coach_notes) ==
    [user_id |-> old.user_id,
     skill_name |-> IF skill_name # None THEN skill_name ELSE old.skill_name,
     timeline |-> timeline,
     coach_notes |-> IF coach_notes # Absent THEN LoadsIfStr(coach_notes)
                     ELSE JNull]

\* if skill_name is not None: goal.skill_name = skill_name, and so on.  An
\* omitted skill_name is None, an omitted timeline NULL, an omitted
\* coach_notes Absent.
UpdatedGoal(old, skill_name, timeline, coach_notes) ==
    [user_id |-> old.user_id,
     skill_name |-> IF skill_name # None THEN skill_name ELSE old.skill_name,
     timeline |-> IF timeline # NULL THEN timeline ELSE old.timeline,
     coach_notes |-> IF coach_notes # Absent THEN LoadsIfStr(coach_notes)
                     ELSE old.coach_notes]

\* the tool committing the fields it had assigned when the parse fails
UpdateGoalKeepsAssignments(goal_id, skill_name, timeline, coach_notes, fault) ==
    LET call == [op |-> "update_goal", goal_id |-> goal_id,
                 skill_name |-> skill_name, timeline |-> timeline,
                 coach_notes |-> coach_notes]
        parsed == LoadsIfStr(coach_notes)
        goal == UpdatedGoal(goals[goal_id], skill_name, timeline, coach_notes)
    IN
    /\ fault \in 0..3
    /\ IF fault = 1 THEN
           /\ last' = Returned(call, Error(StorageFault))
           /\ UNCHANGED goals
       ELSE IF goal_id \notin Ids(goals) THEN
           /\ last' = Returned(call, Error("Goal not found"))
           /\ UNCHANGED goals
       ELSE IF coach_notes # Absent /\ parsed = JSONDecodeError THEN
           /\ last' = Returned(call, Error("Invalid coach_notes JSON format"))
           /\ goals' = [goals EXCEPT ![goal_id] =
                            UpdatedGoal(goals[goal_id], skill_name, timeline, Absent)]
       ELSE IF fault = 2 THEN
           /\ last' = Returned(call, Error(StorageFault))
           /\ UNCHANGED goals
       ELSE
           /\ goals' = [goals EXCEPT ![goal_id] = goal]
           /\ last' = Returned(call, IF fault = 3 THEN Error(StorageFault)
                                     ELSE GoalProjection(goal_id, goal))
    /\ UNCHANGED <<users, milestones, tasks, verifications, now, inflight, sessions>>

\* database calls: 1 query, 2 commit, 3 refresh
UpdateGoal(goal_id, skill_name, timeline, coach_notes, fault) ==
    LET call == [op |-> "update_goal", goal_id |-> goal_id,
                 skill_name |-> skill_name, timeline |-> timeline,
                 coach_notes |-> coach_notes]
        parsed == LoadsIfStr(coach_notes)
        goal == UpdatedGoal(goals[goal_id], skill_name, timeline, coach_notes)
    IN
    /\ fault \in 0..3
    /\ IF fault = 1 THEN
           /\ last' = Returned(call, Error(StorageFault))
           /\ UNCHANGED goals
       ELSE IF goal_id \notin Ids(goals) THEN
           /\ last' = Returned(call, Error("Goal not found"))
           /\ UNCHANGED goals
       ELSE IF coach_notes # Absent /\ parsed = JSONDecodeError THEN
           \* returns before the commit: the assignments made on the session's
           \* object are dropped when the session closes
           /\ last' = Returned(call, Error("Invalid coach_notes JSON format"))
           /\ UNCHANGED goals
       ELSE IF fault = 2 THEN
           /\ last' = Returned(call, Error(StorageFault))
           /\ UNCHANGED goals
       ELSE
           /\ goals' = [goals EXCEPT ![goal_id] = goal]
           /\ last' = Returned(call, IF fault = 3 THEN Error(StorageFault)
                                     ELSE GoalProjection(goal_id, goal))
    /\ UNCHANGED <<users, milestones, tasks, verifications, now, inflight, sessions>>

(***************************************************************************)
(* update_milestone                                                        *)
(***************************************************************************)
MilestoneProjection(id, m) ==
    [error |-> None, milestone_id |-> id, title |-> m.title,
     description |-> m.description, order |-> m.order,
     is_complete |-> m.is_complete]

\* the timestamp set whatever the flag
CompletedAtForAlwaysNow(is_complete) == now

\* if is_complete: completed_at = datetime.utcnow() else: completed_at = None
CompletedAtFor(is_complete) == IF is_complete THEN now ELSE NULL

\* the update without the else branch that clears completed_at
UpdatedMilestoneNeverClears(old, title, description, is_complete) ==
    [goal_id |-> old.goal_id,
     title |-> IF title # None THEN title ELSE old.title,
     description |-> IF description # None THEN description ELSE old.description,
     order |-> old.order,
     is_complete |-> IF is_complete # {} THEN TRUE \in is_complete
                     ELSE old.is_complete,
     completed_at |-> IF is_complete = {TRUE} THEN now ELSE old.completed_at]

\* if title is not None: milestone.title = title, and so on.  An omitted
\* title or description is None; is_complete is {} when omitted, else {TRUE}
\* or {FALSE}.
UpdatedMilestone(old, title, description, is_complete) ==
    [goal_id |-> old.goal_id,
     title |-> IF title # None THEN title ELSE old.title,
     description |-> IF description # None THEN description ELSE old.description,
     order |-> old.order,
     is_complete |-> IF is_complete # {} THEN TRUE \in is_complete
                     ELSE old.is_complete,
     completed_at |-> IF is_complete # {} THEN CompletedAtFor(TRUE \in is_complete)
                      ELSE old.completed_at]

\* database calls: 1 query, 2 commit, 3 refresh
UpdateMilestone(milestone_id, title, description, is_complete, fault) ==
    LET call == [op |-> "update_milestone", milestone_id |-> milestone_id, title |-> title,
                 description |-> description, is_complete |-> is_complete]
        milestone == UpdatedMilestone(milestones[milestone_id], title,
                                      description, is_complete)
    IN
    /\ fault \in 0..3
    /\ IF fault = 1 THEN
           /\ last' = Returned(call, Error(StorageFault))
           /\ UNCHANGED milestones
       ELSE IF milestone_id \notin Ids(milestones) THEN
           /\ last' = Returned(call, Error("Milestone not found"))
           /\ UNCHANGED milestones
       ELSE IF fault = 2 THEN
           /\ last' = Returned(call, Error(StorageFault))
           /\ UNCHANGED milestones
       ELSE
           /\ milestones' = [milestones EXCEPT ![milestone_id] = milestone]
           /\ last' = Returned(call, IF fault = 3 THEN Error(StorageFault)
                                     ELSE MilestoneProjection(milestone_id, milestone))
    /\ UNCHANGED <<users, goals, tasks, verifications, now, inflight, sessions>>

(***************************************************************************)
(* create_task                                                             *)
(***************************************************************************)
\* the query without its filter on is_complete
CurrentMilestoneAnyState(goal_id) ==
    First(OrderBy({m \in Ids(milestones) : milestones[m].goal_id = goal_id},
                  [m \in Ids(milestones) |-> milestones[m].order]))

\* the query without its filter on the goal
CurrentMilestoneOfAnyGoal(goal_id) ==
    First(OrderBy({m \in Ids(milestones) : milestones[m].is_complete = FALSE},
                  [m \in Ids(milestones) |-> milestones[m].order]))

\* the query ordered by Milestone.order.desc()
CurrentMilestoneLastOrder(goal_id) ==
    First(OrderBy({m \in Ids(milestones) : /\ milestones[m].goal_id = goal_id
                                           /\ milestones[m].is_complete = FALSE},
                  [m \in Ids(milestones) |-> 0 - milestones[m].order]))

\* filter(Milestone.goal_id == goal_id, Milestone.is_complete == False)
\*   .order_by(Milestone.order).first()
CurrentMilestone(goal_id) ==
    First(OrderBy({m \in Ids(milestones) : /\ milestones[m].goal_id = goal_id
                                           /\ milestones[m].is_complete = FALSE},
                  [m \in Ids(milestones) |-> milestones[m].order]))

\* column defaults of a new Task row
DefaultCreatedAt == now
DefaultTaskCompletedAt == NULL

\* json.dumps of the content and of the requirements of the verification
DumpContent(prompt, guidelines) ==
    "{\"prompt\": \"" \o prompt \o "\", \"guidelines\": \"" \o guidelines \o "\"}"

DumpRequirements(criteria) == "{\"completion_criteria\": \"" \o criteria \o "\"}"

NewVerification(task_id, task_title, task_description) ==
    [task_id |-> task_id,
     verification_type |-> "text",
     content |-> DumpContent("Please complete the following task: " \o task_title,
                             task_description),
     requirements |->
        DumpRequirements("Task should be completed according to the description")]

\* the task created with status IN_PROGRESS
NewTaskInProgress(goal_id, current_milestone, task_title, task_description) ==
    [goal_id |-> goal_id,
     milestone_id |-> current_milestone,
     title |-> task_title,
     description |-> task_description,
     status |-> "IN_PROGRESS",
     created_at |-> DefaultCreatedAt,
     completed_at |-> DefaultTaskCompletedAt]

\* Task(goal_id=..., milestone_id=current_milestone.id if current_milestone
\* else None, title=..., description=..., status=TaskStatus.INCOMPLETE)
NewTask(goal_id, current_milestone, task_title, task_description) ==
    [goal_id |-> goal_id,
     milestone_id |-> current_milestone,
     title |-> task_title,
     description |-> task_description,
     status |-> "INCOMPLETE",
     created_at |-> DefaultCreatedAt,
     completed_at |-> DefaultTaskCompletedAt]

TaskProjection(id, t, v, current_milestone) ==
    [error |-> None, task_id |-> id, task_title |-> t.title,
     task_description |-> t.description,
     verification_type |-> v.verification_type,
     verification_content |->
        [prompt |-> "Please complete the following task: " \o t.title,
         guidelines |-> t.description],
     milestone_id |-> current_milestone]

\* the tool without its check of the goal
CreateTaskUnchecked(goal_id, task_title, task_description, fault) ==
    LET call == [op |-> "create_task", goal_id |-> goal_id,
                 task_title |-> task_title, task_description |-> task_description]
        task_id == Len(tasks) + 1
    IN
    /\ fault \in 0..7
    /\ \E current_milestone \in CurrentMilestone(goal_id) :
          LET task == NewTask(goal_id, current_milestone, task_title,
                              task_description)
              verification == NewVerification(task_id, task_title,
                                              task_description)
          IN
          /\ tasks' = Append(tasks, task)
          /\ verifications' = Append(verifications, verification)
          /\ last' = Returned(call, TaskProjection(task_id, task, verification,
                                                   current_milestone))
    /\ UNCHANGED <<users, goals, milestones, now, inflight, sessions>>

\* database calls: 1 goal query, 2 milestone query, 3 commit of the task,
\* 4 refresh, 5 commit of the verification, 6 refresh, 7 reload of the task,
\* expired by the commit, when the result reads task.id
CreateTask(goal_id, task_title, task_description, fault) ==
    LET call == [op |-> "create_task", goal_id |-> goal_id,
                 task_title |-> task_title, task_description |-> task_description]
        task_id == Len(tasks) + 1
    IN
    /\ fault \in 0..7
    /\ IF fault = 1 THEN
           /\ last' = Returned(call, Error(StorageFault))
           /\ UNCHANGED <<tasks, verifications>>
       ELSE IF goal_id \notin Ids(goals) THEN
           /\ last' = Returned(call, Error("Goal not found"))
           /\ UNCHANGED <<tasks, verifications>>
       ELSE IF fault \in {2, 3} THEN
           /\ last' = Returned(call, Error(StorageFault))
           /\ UNCHANGED <<tasks, verifications>>
       ELSE
           \E current_milestone \in CurrentMilestone(goal_id) :
              LET task == NewTask(goal_id, current_milestone, task_title,
                                  task_description)
                  verification == NewVerification(task_id, task_title,
                                                  task_description)
              IN
              \* the task row is committed here
              /\ tasks' = Append(tasks, task)
              /\ IF fault \in {4, 5} THEN
                     /\ last' = Returned(call, Error(StorageFault))
                     /\ UNCHANGED verifications
                 ELSE
                     /\ verifications' = Append(verifications, verification)
                     /\ last' = Returned(call,
                                   IF fault \in {6, 7} THEN Error(StorageFault)
                                   ELSE TaskProjection(task_id, task, verification,
                                                       current_milestone))
    /\ UNCHANGED <<users, goals, milestones, now, inflight, sessions>>

(***************************************************************************)
(* The environment: the application that shares the store drives a task    *)
(* through its status lifecycle, and time passes.                          *)
(***************************************************************************)
SetTaskStatus(task_id, status) ==
    /\ task_id \in Ids(tasks)
    /\ \/ tasks[task_id].status = "INCOMPLETE" /\ status \in {"IN_PROGRESS", "COMPLETE"}
       \/ tasks[task_id].status = "IN_PROGRESS" /\ status = "COMPLETE"
    /\ tasks' = [tasks EXCEPT ![task_id].status = status,
                              ![task_id].completed_at =
                                  IF status = "COMPLETE" THEN now ELSE @]
    /\ last' = [op |-> "set_task_status", task_id |-> task_id,
                status |-> status, result |-> Error(None)]
    /\ UNCHANGED <<users, goals, milestones, verifications, now, inflight, sessions>>

Tick ==
    /\ now < MaxTime
    /\ now' = now + 1
    /\ UNCHANGED <<users, goals, milestones, tasks, verifications, last, inflight, sessions>>

(***************************************************************************)
(* Concurrent calls.  Requests are served independently, each call with    *)
(* its own session, so calls interleave at their database calls: a step of *)
(* a call is one database call together with the Python code that leads to *)
(* the next one.  A query reads what is committed at that moment; a commit *)
(* writes the rows the call has added or changed; a raising call (fault)   *)
(* is caught by the except clause, which rolls back and sets the error     *)
(* result.  Every path, the early returns too, passes the finally clause.  *)
(***************************************************************************)
\* db = get_db(): SessionLocal() opens the session of the call
Begin(p, call, first, local) ==
    /\ inflight[p].pc = "idle"
    /\ inflight' = [inflight EXCEPT ![p] = [pc |-> first, call |-> call,
                                            local |-> local,
                                            result |-> Error(None)]]
    /\ sessions' = sessions + 1
    /\ UNCHANGED <<users, goals, milestones, tasks, verifications, now, last>>

\* the call moves on to its next database call
Goto(p, pc, local) ==
    inflight' = [inflight EXCEPT ![p].pc = pc, ![p].local = local]

\* return <result> inside the try block: the finally clause is next
Return(p, result) ==
    inflight' = [inflight EXCEPT ![p].pc = "finally", ![p].result = result]

\* except Exception as e: db.rollback(); return {"error": str(e)}
Except(p, msg) == Return(p, Error(msg))

\* the finally clause without db.close()
FinallyLeaks(p) ==
    /\ inflight[p].pc = "finally"
    /\ inflight' = [inflight EXCEPT ![p] = Idle]
    /\ UNCHANGED <<users, goals, milestones, tasks, verifications, now, last,
                   sessions>>

\* finally: db.close(); the caller then has the result the call held
Finally(p) ==
    /\ inflight[p].pc = "finally"
    /\ sessions' = sessions - 1
    /\ inflight' = [inflight EXCEPT ![p] = Idle]
    /\ UNCHANGED <<users, goals, milestones, tasks, verifications, now, last>>

\* the call of worker p is in tool op, at a database call
At(p, op) ==
    /\ inflight[p].pc \notin {"idle", "finally"}
    /\ inflight[p].call.op = op

\* the unique constraints of the users table let no commit insert a second
\* row with a username or an email that a committed row has
UniqueViolationNone(username, email) == FALSE

UniqueViolation(username, email) ==
    \E u \in Ids(users) : users[u].username = username \/ users[u].email = email

IntegrityError == "UNIQUE constraint failed"

BeginCreateUser(p, username, email, learning_style) ==
    Begin(p, [op |-> "create_user", username |-> username, email |-> email,
              learning_style |-> learning_style],
          "query", [user_id |-> NULL])

CreateUserStep(p, fault) ==
    LET c == inflight[p].call
        l == inflight[p].local
        pc == inflight[p].pc
    IN
    /\ At(p, "create_user")
    /\ IF fault THEN
           Except(p, StorageFault) /\ UNCHANGED users
       ELSE IF pc = "query" THEN
           /\ IF ExistingUser(c.username, c.email) # {}
              THEN Return(p, Error("Username or email already exists"))
              ELSE Goto(p, "commit", l)
           /\ UNCHANGED users
       ELSE IF pc = "commit" THEN
           IF UniqueViolation(c.username, c.email)
           THEN Except(p, IntegrityError) /\ UNCHANGED users
           ELSE /\ users' = Append(users, [username |-> c.username,
                                           email |-> c.email,
                                           learning_style |-> c.learning_style])
                /\ Goto(p, "refresh", [user_id |-> Len(users) + 1])
       ELSE
           \* refresh, then the projection of the row
           /\ Return(p, UserProjection(l.user_id, users[l.user_id]))
           /\ UNCHANGED users
    /\ UNCHANGED <<goals, milestones, tasks, verifications, now, last, sessions>>

BeginUpdateUser(p, user_id, learning_style) ==
    Begin(p, [op |-> "update_user", user_id |-> user_id,
              learning_style |-> learning_style],
          "query", [user_id |-> user_id])

UpdateUserStep(p, fault) ==
    LET c == inflight[p].call
        l == inflight[p].local
        pc == inflight[p].pc
    IN
    /\ At(p, "update_user")
    /\ IF fault THEN
           Except(p, StorageFault) /\ UNCHANGED users
       ELSE IF pc = "query" THEN
           /\ IF c.user_id \notin Ids(users)
              THEN Return(p, Error("User not found"))
              ELSE Goto(p, "commit", l)
           /\ UNCHANGED users
       ELSE IF pc = "commit" THEN
           /\ users' = [users EXCEPT ![c.user_id].learning_style = c.learning_style]
           /\ Goto(p, "refresh", l)
       ELSE
           /\ Return(p, UserProjection(c.user_id, users[c.user_id]))
           /\ UNCHANGED users
    /\ UNCHANGED <<goals, milestones, tasks, verifications, now, last, sessions>>

BeginCreateGoal(p, user_id, skill_name, timeline, roadmap, coach_notes) ==
    Begin(p, [op |-> "create_goal", user_id |-> user_id,
              skill_name |-> skill_name, timeline |-> timeline,
              roadmap |-> roadmap, coach_notes |-> coach_notes],
          "query", [goal_id |-> NULL])

\* database calls: query of the user, commit of the goal, refresh of the
\* goal, commit of the milestones, and the reload of the goal, expired by
\* the commit, when the result reads goal.id
CreateGoalStep(p, fault) ==
    LET c == inflight[p].call
        l == inflight[p].local
        pc == inflight[p].pc
        roadmap_list == LoadsIfStr(c.roadmap)
        coach_notes_dict == IF Truthy(c.coach_notes) THEN LoadsIfStr(c.coach_notes)
                            ELSE JNull
        goal == [user_id |-> c.user_id, skill_name |-> c.skill_name,
                 timeline |-> c.timeline, coach_notes |-> coach_notes_dict]
    IN
    /\ At(p, "create_goal")
    /\ IF fault THEN
           Except(p, StorageFault) /\ UNCHANGED <<goals, milestones>>
       ELSE IF pc = "query" THEN
           /\ IF c.user_id \notin Ids(users) THEN
                  Return(p, Error("User not found"))
              ELSE IF roadmap_list = JSONDecodeError THEN
                  Return(p, Error("Invalid roadmap JSON format"))
              ELSE IF coach_notes_dict = JSONDecodeError THEN
                  Return(p, Error("Invalid coach_notes JSON format"))
              ELSE Goto(p, "commit_goal", l)
           /\ UNCHANGED <<goals, milestones>>
       ELSE IF pc = "commit_goal" THEN
           /\ goals' = Append(goals, goal)
           /\ Goto(p, "refresh_goal", [goal_id |-> Len(goals) + 1])
           /\ UNCHANGED milestones
       ELSE IF pc = "refresh_goal" THEN
           \* after the refresh the loop over the roadmap runs
           /\ IF LoopCompletes(roadmap_list)
              THEN Goto(p, "commit_milestones", l)
              ELSE Except(p, LoopError(roadmap_list))
           /\ UNCHANGED <<goals, milestones>>
       ELSE IF pc = "commit_milestones" THEN
           /\ milestones' = milestones \o RoadmapMilestones(l.goal_id, roadmap_list)
           /\ Goto(p, "reload_goal", l)
           /\ UNCHANGED goals
       ELSE
           /\ Return(p, GoalSummary(l.goal_id, goals[l.goal_id],
                                    Len(Entries(roadmap_list))))
           /\ UNCHANGED <<goals, milestones>>
    /\ UNCHANGED <<users, tasks, verifications, now, last, sessions>>

BeginGetContext(p, goal_id) ==
    Begin(p, [op |-> "get_context", goal_id |-> goal_id],
          "query_goal",
          [skill_name |-> None, coach_notes |-> JNull, user_id |-> NULL,
           last_completed |-> <<>>, current_incomplete |-> <<>>,
           roadmap |-> <<>>])

\* the rows of a query as the entries of the result; the attributes are
\* those loaded by the query
TaskSummaries(rows) == [i \in 1..Len(rows) |-> TaskSummary(rows[i])]
MilestoneSummaries(rows) == [i \in 1..Len(rows) |-> MilestoneSummary(rows[i])]

\* database calls: the goal, the completed tasks, the incomplete tasks, the
\* milestones, the user; the result is built from what they returned
GetContextStep(p, fault) ==
    LET c == inflight[p].call
        l == inflight[p].local
        pc == inflight[p].pc
    IN
    /\ At(p, "get_context")
    /\ IF fault THEN
           Except(p, StorageFault)
       ELSE IF pc = "query_goal" THEN
           IF c.goal_id \notin Ids(goals)
           THEN Return(p, Error("Goal not found"))
           ELSE Goto(p, "query_completed",
                     [l EXCEPT !.skill_name = goals[c.goal_id].skill_name,
                               !.coach_notes = goals[c.goal_id].coach_notes,
                               !.user_id = goals[c.goal_id].user_id])
       ELSE IF pc = "query_completed" THEN
           \E rows \in LastCompleted(c.goal_id) :
              Goto(p, "query_incomplete",
                   [l EXCEPT !.last_completed = TaskSummaries(rows)])
       ELSE IF pc = "query_incomplete" THEN
           \E rows \in CurrentIncomplete(c.goal_id) :
              Goto(p, "query_milestones",
                   [l EXCEPT !.current_incomplete = TaskSummaries(rows)])
       ELSE IF pc = "query_milestones" THEN
           \E rows \in Roadmap(c.goal_id) :
              Goto(p, "query_user", [l EXCEPT !.roadmap = MilestoneSummaries(rows)])
       ELSE
           Return(p, [error |-> None,
                      goal_id |-> c.goal_id,
                      skill_name |-> l.skill_name,
                      learning_style |-> IF l.user_id \in Ids(users)
                                         THEN users[l.user_id].learning_style
                                         ELSE None,
                      last_completed_tasks |-> l.last_completed,
                      current_incomplete_tasks |-> l.current_incomplete,
                      roadmap |-> l.roadmap,
                      coach_notes |-> l.coach_notes])
    /\ UNCHANGED <<users, goals, milestones, tasks, verifications, now, last,
                   sessions>>

BeginUpdateGoal(p, goal_id, skill_name, timeline, coach_notes) ==
    Begin(p, [op |-> "update_goal", goal_id |-> goal_id,
              skill_name |-> skill_name, timeline |-> timeline,
              coach_notes |-> coach_notes],
          "query", [goal_id |-> goal_id])

\* database calls: query, commit (the UPDATE of the assigned columns),
\* refresh
UpdateGoalStep(p, fault) ==
    LET c == inflight[p].call
        l == inflight[p].local
        pc == inflight[p].pc
    IN
    /\ At(p, "update_goal")
    /\ IF fault THEN
           Except(p, StorageFault) /\ UNCHANGED goals
       ELSE IF pc = "query" THEN
           /\ IF c.goal_id \notin Ids(goals) THEN
                  Return(p, Error("Goal not found"))
              ELSE IF c.coach_notes # Absent
                      /\ LoadsIfStr(c.coach_notes) = JSONDecodeError THEN
                  Return(p, Error("Invalid coach_notes JSON format"))
              ELSE Goto(p, "commit", l)
           /\ UNCHANGED goals
       ELSE IF pc = "commit" THEN
           /\ goals' = [goals EXCEPT ![c.goal_id] =
                           UpdatedGoal(@, c.skill_name, c.timeline, c.coach_notes)]
           /\ Goto(p, "refresh", l)
       ELSE
           /\ Return(p, GoalProjection(c.goal_id, goals[c.goal_id]))
           /\ UNCHANGED goals
    /\ UNCHANGED <<users, milestones, tasks, verifications, now, last, sessions>>

BeginUpdateMilestone(p, milestone_id, title, description, is_complete) ==
    Begin(p, [op |-> "update_milestone", milestone_id |-> milestone_id,
              title |-> title, description |-> description,
              is_complete |-> is_complete],
          "query", [milestone_id |-> milestone_id])

\* database calls: query, commit (the UPDATE of the assigned columns),
\* refresh
UpdateMilestoneStep(p, fault) ==
    LET c == inflight[p].call
        l == inflight[p].local
        pc == inflight[p].pc
    IN
    /\ At(p, "update_milestone")
    /\ IF fault THEN
           Except(p, StorageFault) /\ UNCHANGED milestones
       ELSE IF pc = "query" THEN
           /\ IF c.milestone_id \notin Ids(milestones)
              THEN Return(p, Error("Milestone not found"))
              ELSE Goto(p, "commit", l)
           /\ UNCHANGED milestones
       ELSE IF pc = "commit" THEN
           /\ milestones' = [milestones EXCEPT ![c.milestone_id] =
                                UpdatedMilestone(@, c.title, c.description,
                                                 c.is_complete)]
           /\ Goto(p, "refresh", l)
       ELSE
           /\ Return(p, MilestoneProjection(c.milestone_id,
                                            milestones[c.milestone_id]))
           /\ UNCHANGED milestones
    /\ UNCHANGED <<users, goals, tasks, verifications, now, last, sessions>>

BeginCreateTask(p, goal_id, task_title, task_description) ==
    Begin(p, [op |-> "create_task", goal_id |-> goal_id,
              task_title |-> task_title, task_description |-> task_description],
          "query_goal",
          [current_milestone |-> NULL, task_id |-> NULL, verification_id |-> NULL])

\* database calls: query of the goal, query of the current milestone, commit
\* of the task, refresh of the task, commit of the verification, refresh of
\* the verification, and the reload of the task, expired by the commit, when
\* the result reads task.id
CreateTaskStep(p, fault) ==
    LET c == inflight[p].call
        l == inflight[p].local
        pc == inflight[p].pc
    IN
    /\ At(p, "create_task")
    /\ IF fault THEN
           Except(p, StorageFault) /\ UNCHANGED <<tasks, verifications>>
       ELSE IF pc = "query_goal" THEN
           /\ IF c.goal_id \notin Ids(goals)
              THEN Return(p, Error("Goal not found"))
              ELSE Goto(p, "query_milestone", l)
           /\ UNCHANGED <<tasks, verifications>>
       ELSE IF pc = "query_milestone" THEN
           /\ \E current_milestone \in CurrentMilestone(c.goal_id) :
                 Goto(p, "commit_task",
                      [l EXCEPT !.current_milestone = current_milestone])
           /\ UNCHANGED <<tasks, verifications>>
       ELSE IF pc = "commit_task" THEN
           /\ tasks' = Append(tasks, NewTask(c.goal_id, l.current_milestone,
                                             c.task_title, c.task_description))
           /\ Goto(p, "refresh_task", [l EXCEPT !.task_id = Len(tasks) + 1])
           /\ UNCHANGED verifications
       ELSE IF pc = "refresh_task" THEN
           /\ Goto(p, "commit_verification", l)
           /\ UNCHANGED <<tasks, verifications>>
       ELSE IF pc = "commit_verification" THEN
           /\ verifications' = Append(verifications,
                                      NewVerification(l.task_id, c.task_title,
                                                      c.task_description))
           /\ Goto(p, "refresh_verification",
                   [l EXCEPT !.verification_id = Len(verifications) + 1])
           /\ UNCHANGED tasks
       ELSE IF pc = "refresh_verification" THEN
           /\ Goto(p, "reload_task", l)
           /\ UNCHANGED <<tasks, verifications>>
       ELSE
           /\ Return(p, TaskProjection(l.task_id, tasks[l.task_id],
                                       verifications[l.verification_id],
                                       l.current_milestone))
           /\ UNCHANGED <<tasks, verifications>>
    /\ UNCHANGED <<users, goals, milestones, now, last, sessions>>

(***************************************************************************)
(* The arguments the callers supply.                                       *)
(***************************************************************************)
Usernames == {"alice", "bob"}
Emails == {"alice@x.com", "bob@x.com"}

\* an id that refers to no row of the table
Unknown(table) == Len(table) + 1

OptionalBool == {{}, {TRUE}, {FALSE}}

Alice == <<"alice", "alice@x.com">>

TwoEntries ==
    Text("[{\"description\": \"strum\"}, {\"title\": \"Songs\", \"description\": \"play\"}]")

ThreeEntries ==
    Value(JList(<<JDict("Chords", NoKey, NoKey), JDict("Songs", NoKey, NoKey),
                  JDict(NoKey, NoKey, NoKey)>>))

(***************************************************************************)
(* SpecUsers: the user tools with every argument and every fault.          *)
(***************************************************************************)
UsersCreateUser ==
    \E username \in Usernames, email \in Emails,
       learning_style \in {None, "visual"}, fault \in 0..3 :
       /\ Len(users) < MaxUsers \/ ExistingUser(username, email) # {}
       /\ CreateUser(username, email, learning_style, fault)

UsersUpdateUser ==
    \E user_id \in 1..Unknown(users), learning_style \in {"visual", "auditory"},
       fault \in 0..3 :
       UpdateUser(user_id, learning_style, fault)

NextUsers == UsersCreateUser \/ UsersUpdateUser

SpecUsers == Init /\ [][NextUsers]_vars

(***************************************************************************)
(* SpecTasks: goals with three milestones that are completed and reopened, *)
(* and create_task with every fault.                                       *)
(***************************************************************************)
TasksCreateUser == users = <<>> /\ CreateUser(Alice[1], Alice[2], None, 0)

TasksCreateGoal ==
    /\ Len(goals) < MaxGoals
    /\ \E roadmap \in {Text("[]"), ThreeEntries} :
          CreateGoal(1, "Guitar", 60, roadmap, Absent, 0)

TasksUpdateMilestone ==
    \E milestone_id \in Ids(milestones), is_complete \in {{TRUE}, {FALSE}} :
       UpdateMilestone(milestone_id, None, None, is_complete, 0)

TasksCreateTask ==
    /\ Len(tasks) < MaxNewTasks
    /\ \E goal_id \in 1..Unknown(goals), fault \in 0..7 :
          CreateTask(goal_id, "Learn Em", "Practice E minor", fault)

NextTasks ==
    \/ TasksCreateUser
    \/ TasksCreateGoal
    \/ TasksUpdateMilestone
    \/ TasksCreateTask

SpecTasks == Init /\ [][NextTasks]_vars

(***************************************************************************)
(* SpecUpdates: goals with one milestone each and a task; update_goal and  *)
(* update_milestone on the first goal, the first milestone and on unknown  *)
(* ids, with every combination of supplied and omitted arguments and every *)
(* fault.                                                                  *)
(***************************************************************************)
UpdCreateUser == users = <<>> /\ CreateUser(Alice[1], Alice[2], None, 0)

UpdCreateGoal ==
    /\ Len(goals) < MaxGoals
    /\ CreateGoal(1, "Guitar", 60, Text("[{\"title\": \"Chords\"}]"), Absent, 0)

UpdCreateTask ==
    /\ Len(tasks) < MaxTasks
    /\ CreateTask(1, "Learn Em", "Practice E minor", 0)

UpdUpdateGoal ==
    \E goal_id \in {1, Unknown(goals)}, skill_name \in {None, "Piano"},
       timeline \in {NULL, 45},
       coach_notes \in {Absent, Text("{\"tone\": \"warm\"}"), Text("{tone")},
       fault \in 0..3 :
       UpdateGoal(goal_id, skill_name, timeline, coach_notes, fault)

UpdUpdateMilestone ==
    \E milestone_id \in {1, Unknown(milestones)}, title \in {None, "Scales"},
       description \in {None, "daily"}, is_complete \in OptionalBool,
       fault \in 0..3 :
       UpdateMilestone(milestone_id, title, description, is_complete, fault)

NextUpdates ==
    \/ UpdCreateUser
    \/ UpdCreateGoal
    \/ UpdCreateTask
    \/ UpdUpdateGoal
    \/ UpdUpdateMilestone

SpecUpdates == Init /\ [][NextUpdates]_vars

(***************************************************************************)
(* SpecCtx: two goals, the tasks of the first one more than get_context    *)
(* lists, started and completed by the environment as time passes.         *)
(***************************************************************************)
CtxCreateUser == users = <<>> /\ CreateUser(Alice[1], Alice[2], None, 0)

CtxCreateGoal ==
    /\ Len(goals) < MaxGoals
    /\ CreateGoal(1, "Guitar", 60, Text("[]"), Absent, 0)

TasksOf(goal_id) == {t \in Ids(tasks) : tasks[t].goal_id = goal_id}

\* the clock is fine enough that at most MaxSameTime tasks are created, and
\* at most MaxSameTime completed, at one reading of it
CreatedAt(time) == {t \in Ids(tasks) : tasks[t].created_at = time}
CompletedAt(time) == {t \in Ids(tasks) : tasks[t].completed_at = time}

CtxCreateTask ==
    \E goal_id \in Ids(goals) :
       /\ Cardinality(TasksOf(goal_id)) <
             (IF goal_id = 1 THEN MaxCtxTasks ELSE MaxOtherTasks)
       /\ Cardinality(CreatedAt(now)) < MaxSameTime
       /\ CreateTask(goal_id, "Learn Em", "Practice E minor", 0)

CtxSetTaskStatus ==
    \E task_id \in Ids(tasks), status \in {"IN_PROGRESS", "COMPLETE"} :
       /\ status = "COMPLETE" => Cardinality(CompletedAt(now)) < MaxSameTime
       /\ SetTaskStatus(task_id, status)

CtxGetContext == \E goal_id \in 1..Unknown(goals) : GetContext(goal_id, 0)

NextCtx ==
    \/ CtxCreateUser
    \/ CtxCreateGoal
    \/ CtxCreateTask
    \/ CtxSetTaskStatus
    \/ CtxGetContext
    \/ Tick

SpecCtx == Init /\ [][NextCtx]_vars

(***************************************************************************)
(* SpecParse: create_goal and update_goal with textual arguments that      *)
(* parse, that do not parse, and with the empty text.                      *)
(***************************************************************************)
ParseCreateUser == users = <<>> /\ CreateUser(Alice[1], Alice[2], None, 0)

ParseCreateGoal ==
    /\ Len(goals) < MaxGoals
    /\ \E roadmap \in {Text("[]"), Text(""), Text("[{"), Text("[{\"title\": \"Chords\"}]")},
          coach_notes \in {Absent, Text(""), Text("{tone"), Text("{\"tone\": \"brief\"}")} :
          CreateGoal(1, "Guitar", 60, roadmap, coach_notes, 0)

ParseUpdateGoal ==
    \E goal_id \in Ids(goals), skill_name \in {None, "Piano"},
       coach_notes \in {Absent, Text(""), Text("{tone"), Text("{\"tone\": \"warm\"}")} :
       UpdateGoal(goal_id, skill_name, NULL, coach_notes, 0)

NextParse ==
    \/ ParseCreateUser
    \/ ParseCreateGoal
    \/ ParseUpdateGoal

SpecParse == Init /\ [][NextParse]_vars

(***************************************************************************)
(* SpecCalls: the calls of two workers, interleaved at their database      *)
(* calls, every database call raising or not.                              *)
(***************************************************************************)
\* the calls of tool op that are in flight
Pending(op) ==
    Cardinality({p \in Procs : /\ inflight[p].pc # "idle"
                               /\ inflight[p].call.op = op})

CallsBegin ==
    \E p \in Procs :
       \/ BeginCreateUser(p, Alice[1], Alice[2], None)
       \/ \E user_id \in {1, Unknown(users)} : BeginUpdateUser(p, user_id, "visual")
       \/ /\ Len(goals) + Pending("create_goal") < MaxCallGoals
          /\ \E roadmap \in {Text("[{\"title\": \"Chords\"}]"), Text("7"), Text("[{")} :
                BeginCreateGoal(p, 1, "Guitar", 60, roadmap, Absent)
       \/ \E goal_id \in {1, Unknown(goals)} : BeginGetContext(p, goal_id)
       \/ \E coach_notes \in {Absent, Text("{tone")} :
             BeginUpdateGoal(p, 1, "Piano", NULL, coach_notes)
       \/ BeginUpdateMilestone(p, 1, None, None, {TRUE})
       \/ /\ Len(tasks) + Pending("create_task") < MaxTasks
          /\ BeginCreateTask(p, 1, "Learn Em", "Practice E minor")

CallsCreateUser == \E p \in Procs, fault \in BOOLEAN : CreateUserStep(p, fault)
CallsUpdateUser == \E p \in Procs, fault \in BOOLEAN : UpdateUserStep(p, fault)
CallsCreateGoal == \E p \in Procs, fault \in BOOLEAN : CreateGoalStep(p, fault)
CallsGetContext == \E p \in Procs, fault \in BOOLEAN : GetContextStep(p, fault)
CallsUpdateGoal == \E p \in Procs, fault \in BOOLEAN : UpdateGoalStep(p, fault)
CallsUpdateMilestone == \E p \in Procs, fault \in BOOLEAN : UpdateMilestoneStep(p, fault)
CallsCreateTask == \E p \in Procs, fault \in BOOLEAN : CreateTaskStep(p, fault)
CallsFinally == \E p \in Procs : Finally(p)

NextCalls ==
    \/ CallsBegin
    \/ CallsCreateUser
    \/ CallsUpdateUser
    \/ CallsCreateGoal
    \/ CallsGetContext
    \/ CallsUpdateGoal
    \/ CallsUpdateMilestone
    \/ CallsCreateTask
    \/ CallsFinally

SpecCalls == Init /\ [][NextCalls]_vars

(***************************************************************************)
(* SpecRaceUsers: two workers in create_user with usernames and emails     *)
(* that clash or not, every database call raising or not.                  *)
(***************************************************************************)
RaceUsersBegin ==
    \E p \in Procs, username \in Usernames, email \in Emails :
       /\ Len(users) + Pending("create_user") < MaxUsers
       /\ BeginCreateUser(p, username, email, None)

RaceUsersCreateUser == \E p \in Procs, fault \in BOOLEAN : CreateUserStep(p, fault)

RaceUsersFinally == \E p \in Procs : Finally(p)

NextRaceUsers ==
    \/ RaceUsersBegin
    \/ RaceUsersCreateUser
    \/ RaceUsersFinally

SpecRaceUsers == Init /\ [][NextRaceUsers]_vars

(***************************************************************************)
(* SpecRace: a goal with a roadmap of two entries is created while other   *)
(* workers read its context and create its tasks.  No database call        *)
(* raises.                                                                 *)
(***************************************************************************)
RaceBegin ==
    \E p \in Procs :
       \/ users = <<>> /\ Pending("create_user") = 0
             /\ BeginCreateUser(p, Alice[1], Alice[2], None)
       \/ /\ Len(goals) + Pending("create_goal") < MaxGoals
          /\ BeginCreateGoal(p, 1, "Guitar", 60, TwoEntries, Absent)
       \/ \E goal_id \in 1..MaxGoals : BeginGetContext(p, goal_id)
       \/ /\ Len(tasks) + Pending("create_task") < MaxTasks
          /\ \E goal_id \in 1..MaxGoals :
                BeginCreateTask(p, goal_id, "Learn Em", "Practice E minor")

RaceCreateUser == \E p \in Procs : CreateUserStep(p, FALSE)
RaceCreateGoal == \E p \in Procs : CreateGoalStep(p, FALSE)
RaceGetContext == \E p \in Procs : GetContextStep(p, FALSE)
RaceCreateTask == \E p \in Procs : CreateTaskStep(p, FALSE)
RaceFinally == \E p \in Procs : Finally(p)

NextRace ==
    \/ RaceBegin
    \/ RaceCreateUser
    \/ RaceCreateGoal
    \/ RaceGetContext
    \/ RaceCreateTask
    \/ RaceFinally

SpecRace == Init /\ [][NextRace]_vars

(***************************************************************************)
(* SpecRaceTask: a goal with a roadmap of two entries; workers create its  *)
(* tasks and complete or reopen its milestones, as time passes.  No        *)
(* database call raises.                                                   *)
(***************************************************************************)
RaceTaskCreateUser == users = <<>> /\ CreateUser(Alice[1], Alice[2], None, 0)

RaceTaskCreateGoal ==
    /\ Len(goals) < MaxCallGoals
    /\ CreateGoal(1, "Guitar", 60, TwoEntries, Absent, 0)

RaceTaskBegin ==
    \E p \in Procs :
       \/ /\ Len(tasks) + Pending("create_task") < MaxTasks
          /\ BeginCreateTask(p, 1, "Learn Em", "Practice E minor")
       \/ \E milestone_id \in {1, 2}, is_complete \in {{TRUE}, {FALSE}} :
             BeginUpdateMilestone(p, milestone_id, None, None, is_complete)

RaceTaskCreateTask == \E p \in Procs : CreateTaskStep(p, FALSE)
RaceTaskUpdateMilestone == \E p \in Procs : UpdateMilestoneStep(p, FALSE)
RaceTaskFinally == \E p \in Procs : Finally(p)

NextRaceTask ==
    \/ RaceTaskCreateUser
    \/ RaceTaskCreateGoal
    \/ RaceTaskBegin
    \/ RaceTaskCreateTask
    \/ RaceTaskUpdateMilestone
    \/ RaceTaskFinally
    \/ Tick

SpecRaceTask == Init /\ [][NextRaceTask]_vars

(***************************************************************************)
(* Spec: every tool and the environment.                                   *)
(***************************************************************************)
DoCreateUser == users = <<>> /\ CreateUser(Alice[1], Alice[2], None, 0)

DoUpdateUser ==
    \E user_id \in 1..Unknown(users) : UpdateUser(user_id, "visual", 0)

DoCreateGoal ==
    /\ Len(goals) < MaxGoals
    /\ \E user_id \in 1..Unknown(users),
          roadmap \in {Text("[]"), TwoEntries, Text("[{\"title\": \"Chords\"}, 7]")} :
          CreateGoal(user_id, "Guitar", 60, roadmap, Absent, 0)

DoGetContext ==
    \E goal_id \in 1..Unknown(goals), fault \in 0..5 : GetContext(goal_id, fault)

DoUpdateGoal ==
    \E goal_id \in 1..Unknown(goals) : UpdateGoal(goal_id, "Piano", NULL, Absent, 0)

DoUpdateMilestone ==
    \E milestone_id \in 1..Unknown(milestones), is_complete \in OptionalBool :
       UpdateMilestone(milestone_id, None, None, is_complete, 0)

DoCreateTask ==
    /\ Len(tasks) < MaxTasks
    /\ \E goal_id \in 1..Unknown(goals) :
          CreateTask(goal_id, "Learn Em", "Practice E minor", 0)

DoSetTaskStatus ==
    \E task_id \in Ids(tasks), status \in {"IN_PROGRESS", "COMPLETE"} :
       SetTaskStatus(task_id, status)

Next ==
    \/ DoCreateUser
    \/ DoUpdateUser
    \/ DoCreateGoal
    \/ DoGetContext
    \/ DoUpdateGoal
    \/ DoUpdateMilestone
    \/ DoCreateTask
    \/ DoSetTaskStatus

Spec == Init /\ [][Next]_vars

(***************************************************************************)
(* The properties.                                                         *)
(***************************************************************************)
\* the step is a call of the tool op
Call(op) == last'.op = op /\ <<store, last>>' # <<store, last>>

Succeeded(call) == call.result.error = None

MilestonesOf(goal_id) == {m \in Ids(milestones) : milestones[m].goal_id = goal_id}

\* C1: a create_goal call that returns an error leaves no Goal and no
\* Milestone behind; one that returns success leaves the Goal and one
\* Milestone per roadmap entry.
C1_CreateGoalAllOrNothing ==
    [][Call("create_goal") =>
          IF Succeeded(last')
          THEN /\ Len(goals') = Len(goals) + 1
               /\ Len(milestones') = Len(milestones) + last'.result.milestones_count
          ELSE goals' = goals /\ milestones' = milestones]_vars

\* C2: a successful create_goal with a roadmap of N entries leaves N
\* milestones of the new goal, the i-th entry with order i; no later call
\* changes the order or the goal of a milestone, or adds a milestone to a
\* goal; so the orders of every goal's milestones are 1..N without repeats.
C2_MilestoneOrder ==
    [][/\ (Call("create_goal") /\ Succeeded(last')) =>
             LET g == last'.result.goal_id
                 entries == LoadsIfStr(last'.roadmap).items
                 new == {m \in Ids(milestones') : milestones'[m].goal_id = g}
             IN /\ g = Len(goals')
                /\ Cardinality(new) = Len(entries)
                /\ new \cap Ids(milestones) = {}
                /\ \A i \in 1..Len(entries) :
                      \E m \in new :
                         /\ milestones'[m].order = i
                         /\ milestones'[m].title =
                               (IF entries[i].title = NoKey
                                THEN "Milestone " \o ToString(i)
                                ELSE entries[i].title)
                         /\ milestones'[m].description =
                               (IF entries[i].description = NoKey THEN ""
                                ELSE entries[i].description)
       /\ ~Call("create_goal") => Len(milestones') = Len(milestones)
       /\ \A m \in Ids(milestones) :
             /\ m \in Ids(milestones')
             /\ milestones'[m].order = milestones[m].order
             /\ milestones'[m].goal_id = milestones[m].goal_id
       /\ \A g \in Ids(goals) :
             /\ {milestones[m].order : m \in MilestonesOf(g)} =
                   1..Cardinality(MilestonesOf(g))
             /\ \A m1, m2 \in MilestonesOf(g) :
                   milestones[m1].order = milestones[m2].order => m1 = m2]_vars

C2_Witness ==
    /\ last.op = "update_milestone"
    /\ Succeeded(last)
    /\ Len(goals) = 2
    /\ milestones[last.milestone_id].is_complete
    /\ milestones[last.milestone_id].goal_id = 2
    /\ milestones[last.milestone_id].order = 2
    /\ milestones[last.milestone_id].title = "Songs"
    /\ \E m \in MilestonesOf(2) :
          milestones[m].order = 1 /\ milestones[m].title = "Milestone 1"

\* the incomplete milestones of a goal
Incomplete(goal_id) == {m \in MilestonesOf(goal_id) : ~milestones[m].is_complete}

\* C3: create_task on an existing goal stores on the new task the goal's
\* incomplete milestone of smallest order, or null when the goal has no
\* incomplete milestone, and the task is INCOMPLETE; it fails only for an
\* unknown goal or a storage fault.
C3_TaskMilestone ==
    last.op = "create_task" =>
       /\ Succeeded(last) =>
             LET t == tasks[last.result.task_id]
             IN /\ last.result.task_id = Len(tasks)
                /\ last.goal_id \in Ids(goals)
                /\ t.goal_id = last.goal_id
                /\ t.status = "INCOMPLETE"
                /\ last.result.milestone_id = t.milestone_id
                /\ IF Incomplete(last.goal_id) = {}
                   THEN t.milestone_id = NULL
                   ELSE /\ t.milestone_id \in Incomplete(last.goal_id)
                        /\ \A m \in Incomplete(last.goal_id) :
                              milestones[t.milestone_id].order <= milestones[m].order
       /\ last.result.error \notin {None, StorageFault} =>
             last.goal_id \notin Ids(goals)

C3_Witness ==
    /\ last.op = "create_task"
    /\ Succeeded(last)
    /\ last.goal_id = 2
    /\ \E m1, m2, m3 \in MilestonesOf(2) :
          /\ milestones[m1].order = 1 /\ milestones[m1].is_complete
          /\ milestones[m2].order = 2 /\ last.result.milestone_id = m2
          /\ milestones[m3].order = 3 /\ ~milestones[m3].is_complete
    /\ Incomplete(1) # {}

\* C4: every persisted Task has exactly one Verification, of type text, and
\* every Verification belongs to a persisted Task.
C4_TaskHasVerification ==
    /\ \A t \in Ids(tasks) :
          Cardinality({v \in Ids(verifications) :
                          /\ verifications[v].task_id = t
                          /\ verifications[v].verification_type = "text"}) = 1
    /\ \A v \in Ids(verifications) : verifications[v].task_id \in Ids(tasks)

\* C5: a successful update_milestone with is_complete = true leaves the
\* milestone complete with a non-null completed_at, with is_complete = false
\* incomplete with a null completed_at, and without is_complete leaves both
\* as they were; on an existing milestone it fails only for a storage fault.
C5_MilestoneCompletion ==
    [][Call("update_milestone") =>
          /\ Succeeded(last') =>
                LET m == last'.milestone_id
                IN /\ m \in Ids(milestones)
                   /\ IF last'.is_complete = {TRUE}
                      THEN /\ milestones'[m].is_complete
                           /\ milestones'[m].completed_at # NULL
                      ELSE IF last'.is_complete = {FALSE}
                      THEN /\ ~milestones'[m].is_complete
                           /\ milestones'[m].completed_at = NULL
                      ELSE /\ milestones'[m].is_complete = milestones[m].is_complete
                           /\ milestones'[m].completed_at = milestones[m].completed_at
          /\ last'.result.error \notin {None, StorageFault} =>
                last'.milestone_id \notin Ids(milestones)]_vars

C5_Witness ==
    /\ last.op = "update_milestone"
    /\ Succeeded(last)
    /\ last.is_complete = {FALSE}
    /\ last.title = None
    /\ milestones[last.milestone_id].title = "Scales"
    /\ ~milestones[last.milestone_id].is_complete
    /\ milestones[last.milestone_id].completed_at = NULL

\* the tasks of a goal that are COMPLETE, and the ids a list of the context
\* names
Completed(goal_id) == {t \in TasksOf(goal_id) : tasks[t].status = "COMPLETE"}
Listed(list) == {list[i].task_id : i \in 1..Len(list)}

\* C6: last_completed_tasks of get_context(g) holds min(5, k) tasks, k the
\* number of COMPLETE tasks of g, each a COMPLETE task of g, none of them
\* completed before a COMPLETE task of g that is left out, in descending
\* completed_at order.
C6_LastCompleted ==
    (last.op = "get_context" /\ Succeeded(last)) =>
       LET list == last.result.last_completed_tasks
           k == Cardinality(Completed(last.goal_id))
       IN /\ Len(list) = (IF k < 5 THEN k ELSE 5)
          /\ Cardinality(Listed(list)) = Len(list)
          /\ Listed(list) \subseteq Completed(last.goal_id)
          /\ \A i \in 1..Len(list) : list[i].status = "COMPLETE"
          /\ \A out \in Completed(last.goal_id) \ Listed(list), kept \in Listed(list) :
                tasks[out].completed_at <= tasks[kept].completed_at
          /\ \A i, j \in 1..Len(list) :
                i < j => tasks[list[i].task_id].completed_at >=
                            tasks[list[j].task_id].completed_at

C6_Witness ==
    /\ last.op = "get_context"
    /\ Succeeded(last)
    /\ Cardinality(Completed(last.goal_id)) = 6
    /\ Len(last.result.last_completed_tasks) = 5
    /\ last.result.last_completed_tasks[1].task_id = 6

\* C7: current_incomplete_tasks of get_context(g) holds exactly the tasks of
\* g that are INCOMPLETE or IN_PROGRESS, each once, in ascending created_at
\* order, and shares no task with last_completed_tasks.
C7_CurrentIncomplete ==
    (last.op = "get_context" /\ Succeeded(last)) =>
       LET list == last.result.current_incomplete_tasks
       IN /\ Listed(list) =
                {t \in TasksOf(last.goal_id) :
                    tasks[t].status \in {"INCOMPLETE", "IN_PROGRESS"}}
          /\ Cardinality(Listed(list)) = Len(list)
          /\ \A i \in 1..Len(list) : list[i].status = tasks[list[i].task_id].status
          /\ \A i, j \in 1..Len(list) :
                i < j => tasks[list[i].task_id].created_at <=
                            tasks[list[j].task_id].created_at
          /\ Listed(list) \cap Listed(last.result.last_completed_tasks) = {}

C7_Witness ==
    /\ last.op = "get_context"
    /\ Succeeded(last)
    /\ Len(last.result.current_incomplete_tasks) > ContextLimit
    /\ \E i \in 1..Len(last.result.current_incomplete_tasks) :
          last.result.current_incomplete_tasks[i].status = "IN_PROGRESS"
    /\ \E i \in 1..Len(last.result.current_incomplete_tasks) :
          last.result.current_incomplete_tasks[i].status = "INCOMPLETE"

\* C8: get_context changes no row of any table, whatever the goal_id; on a
\* known goal it fails only for a storage fault, and it returns empty task
\* lists for a goal without tasks and an empty roadmap for a goal without
\* milestones.
C8_GetContextPureRead ==
    [][Call("get_context") =>
          /\ store' = store
          /\ now' = now
          /\ (last'.goal_id \in Ids(goals) /\ last'.result.error # StorageFault) =>
                /\ Succeeded(last')
                /\ TasksOf(last'.goal_id) = {} =>
                      /\ last'.result.last_completed_tasks = <<>>
                      /\ last'.result.current_incomplete_tasks = <<>>
                /\ MilestonesOf(last'.goal_id) = {} => last'.result.roadmap = <<>>
          /\ last'.goal_id \notin Ids(goals) => ~Succeeded(last')]_vars

C8_Witness ==
    /\ last.op = "get_context"
    /\ Succeeded(last)
    /\ last.result.last_completed_tasks = <<>>
    /\ last.result.current_incomplete_tasks = <<>>
    /\ last.result.roadmap = <<>>
    /\ tasks # <<>>
    /\ milestones # <<>>

\* C9: create_user returns an error and leaves the store as it was when a
\* user with the same username or the same email exists; otherwise it fails
\* only for a storage fault, and on success it has appended one user with a
\* fresh id and returns that user.  No two users share a username or an
\* email.
C9_CreateUser ==
    [][/\ Call("create_user") =>
             IF \E u \in Ids(users) : \/ users[u].username = last'.username
                                      \/ users[u].email = last'.email
             THEN ~Succeeded(last') /\ store' = store
             ELSE /\ last'.result.error \in {None, StorageFault}
                  /\ Succeeded(last') =>
                        /\ users' = Append(users,
                                           [username |-> last'.username,
                                            email |-> last'.email,
                                            learning_style |-> last'.learning_style])
                        /\ last'.result.user_id = Len(users')
                        /\ last'.result.user_id \notin Ids(users)
                        /\ last'.result.username = last'.username
                        /\ last'.result.email = last'.email
                        /\ <<goals, milestones, tasks, verifications>>' =
                              <<goals, milestones, tasks, verifications>>
       /\ \A u1, u2 \in Ids(users) :
             u1 # u2 => /\ users[u1].username # users[u2].username
                        /\ users[u1].email # users[u2].email]_vars

C9_Witness ==
    /\ last.op = "create_user"
    /\ last.result.error = "Username or email already exists"
    /\ \A u \in Ids(users) : users[u].username # last.username
    /\ \E u \in Ids(users) : users[u].email = last.email

\* C10: after a successful update_goal or update_milestone every supplied
\* field holds the supplied value, every omitted field (and the order and
\* the goal of a milestone, the user of a goal) its former value, and no
\* other row of any table has changed.
C10_PartialUpdate ==
    [][/\ (Call("update_goal") /\ Succeeded(last')) =>
             LET g == last'.goal_id
             IN /\ g \in Ids(goals)
                /\ goals'[g].user_id = goals[g].user_id
                /\ goals'[g].skill_name =
                      (IF last'.skill_name # None THEN last'.skill_name
                       ELSE goals[g].skill_name)
                /\ goals'[g].timeline =
                      (IF last'.timeline # NULL THEN last'.timeline
                       ELSE goals[g].timeline)
                /\ goals'[g].coach_notes =
                      (IF last'.coach_notes # Absent THEN LoadsIfStr(last'.coach_notes)
                       ELSE goals[g].coach_notes)
                /\ Len(goals') = Len(goals)
                /\ \A other \in Ids(goals) \ {g} : goals'[other] = goals[other]
                /\ <<users, milestones, tasks, verifications>>' =
                      <<users, milestones, tasks, verifications>>
       /\ (Call("update_milestone") /\ Succeeded(last')) =>
             LET m == last'.milestone_id
             IN /\ m \in Ids(milestones)
                /\ milestones'[m].goal_id = milestones[m].goal_id
                /\ milestones'[m].order = milestones[m].order
                /\ milestones'[m].title =
                      (IF last'.title # None THEN last'.title
                       ELSE milestones[m].title)
                /\ milestones'[m].description =
                      (IF last'.description # None THEN last'.description
                       ELSE milestones[m].description)
                /\ milestones'[m].is_complete =
                      (IF last'.is_complete # {} THEN TRUE \in last'.is_complete
                       ELSE milestones[m].is_complete)
                /\ Len(milestones') = Len(milestones)
                /\ \A other \in Ids(milestones) \ {m} :
                      milestones'[other] = milestones[other]
                /\ <<users, goals, tasks, verifications>>' =
                      <<users, goals, tasks, verifications>>]_vars

C10_Witness ==
    /\ last.op = "update_goal"
    /\ Succeeded(last)
    /\ last.skill_name = None
    /\ last.timeline = 45
    /\ last.coach_notes = Absent
    /\ goals[last.goal_id].skill_name = "Piano"
    /\ goals[last.goal_id].timeline = 45
    /\ goals[last.goal_id].coach_notes.tone = "warm"
    /\ Len(goals) = 2
    /\ tasks # <<>>
    /\ \E m \in Ids(milestones) : milestones[m].description = "daily"

\* C11: a call that names a user, a goal or a milestone that does not exist
\* returns an error and leaves every table as it was.
C11_NotFound ==
    [][/\ ((Call("update_user") \/ Call("create_goal")) /\ last'.user_id > Len(users)) =>
             /\ last'.result.error \in {"User not found", StorageFault}
             /\ store' = store
       /\ ((Call("get_context") \/ Call("update_goal") \/ Call("create_task"))
              /\ last'.goal_id > Len(goals)) =>
             /\ last'.result.error \in {"Goal not found", StorageFault}
             /\ store' = store
       /\ (Call("update_milestone") /\ last'.milestone_id > Len(milestones)) =>
             /\ last'.result.error \in {"Milestone not found", StorageFault}
             /\ store' = store]_vars

C11_Witness ==
    /\ last.op = "create_task"
    /\ last.goal_id > Len(goals)
    /\ last.result.error = "Goal not found"
    /\ goals # <<>>
    /\ milestones # <<>>
    /\ tasks = <<>>

\* a textual argument that is supplied and is no JSON document
Unparseable(arg) == arg.isText /\ JsonLoads(arg.text) = JSONDecodeError

\* C13: create_goal with a roadmap text or a coach_notes text that does not
\* parse, the empty text included, and update_goal with such a coach_notes
\* text, return a validation error and write nothing.
C13_UnparseableText ==
    [][/\ (Call("create_goal") /\ last'.user_id \in Ids(users)
              /\ (Unparseable(last'.roadmap) \/ Unparseable(last'.coach_notes))) =>
             /\ last'.result.error \in {"Invalid roadmap JSON format",
                                        "Invalid coach_notes JSON format"}
             /\ store' = store
       /\ (Call("update_goal") /\ last'.goal_id \in Ids(goals)
              /\ Unparseable(last'.coach_notes)) =>
             /\ last'.result.error = "Invalid coach_notes JSON format"
             /\ store' = store]_vars

\* C14: update_goal with a skill_name or a timeline and a coach_notes text
\* that does not parse returns the validation error (or a storage fault) and
\* leaves the goal, and every other row, as it was.
C14_UpdateGoalParseFailure ==
    [][(Call("update_goal") /\ last'.goal_id \in Ids(goals)
           /\ (last'.skill_name # None \/ last'.timeline # NULL)
           /\ Unparseable(last'.coach_notes)) =>
          /\ last'.result.error \in {"Invalid coach_notes JSON format", StorageFault}
          /\ goals'[last'.goal_id].skill_name = goals[last'.goal_id].skill_name
          /\ goals'[last'.goal_id].timeline = goals[last'.goal_id].timeline
          /\ goals'[last'.goal_id].coach_notes = goals[last'.goal_id].coach_notes
          /\ store' = store]_vars

C14_Witness ==
    /\ last.op = "update_goal"
    /\ last.result.error = "Invalid coach_notes JSON format"
    /\ last.skill_name = "Piano"
    /\ last.timeline = 45
    /\ goals[last.goal_id].skill_name = "Guitar"
    /\ goals[last.goal_id].timeline = 60
    /\ goals[last.goal_id].coach_notes.tone = "warm"

C19_CompleteIffCompletedAt ==
    \A m \in Ids(milestones) :
       milestones[m].is_complete <=> milestones[m].completed_at # NULL

C19_Witness ==
    /\ last.op = "update_milestone"
    /\ Succeeded(last)
    /\ last.is_complete = {}
    /\ \E m1, m2 \in Ids(milestones) :
          /\ milestones[m1].is_complete /\ milestones[m1].completed_at # NULL
          /\ ~milestones[m2].is_complete /\ milestones[m2].completed_at = NULL
          /\ milestones[m1].goal_id = milestones[m2].goal_id

\* C20: the goal of every task exists; the milestone of a task, when it has
\* one, exists and belongs to the goal of the task; the goal of every
\* milestone and the user of every goal exist.
C20_References ==
    /\ \A t \in Ids(tasks) :
          /\ tasks[t].goal_id \in Ids(goals)
          /\ tasks[t].milestone_id # NULL =>
                /\ tasks[t].milestone_id \in Ids(milestones)
                /\ milestones[tasks[t].milestone_id].goal_id = tasks[t].goal_id
    /\ \A m \in Ids(milestones) : milestones[m].goal_id \in Ids(goals)
    /\ \A g \in Ids(goals) : goals[g].user_id \in Ids(users)

C20_Witness ==
    /\ Len(tasks) = 2
    /\ tasks[1].goal_id = 2
    /\ tasks[1].milestone_id # NULL
    /\ milestones[tasks[1].milestone_id].order = 2
    /\ tasks[2].goal_id = 1
    /\ tasks[2].milestone_id = NULL
    /\ MilestonesOf(1) = {}

\* the workers that are in a call
InFlight == {p \in Procs : inflight[p].pc # "idle"}

\* the workers whose call has its result and is about to return it
Returning(op) ==
    {p \in Procs : inflight[p].pc = "finally" /\ inflight[p].call.op = op}

\* C12: every call in flight holds exactly one open session, opened when the
\* call began and closed on every path before it returns; when no call is
\* in flight no session is open.
C12_SessionPerCall ==
    /\ sessions = Cardinality(InFlight)
    /\ InFlight = {} => sessions = 0

C12_Witness ==
    /\ InFlight = {}
    /\ sessions = 0
    /\ Len(users) = 1
    /\ goals # <<>>
    /\ milestones = <<>>
    /\ tasks # <<>>
    /\ verifications = <<>>

\* C16: while a create_goal call with a roadmap of N entries is in flight
\* and has committed its goal g, no get_context(g) returns a roadmap of
\* fewer than N entries and, no milestone of g being complete, no
\* create_task(g) returns a null milestone_id when N > 0.
C16_GoalWithItsMilestones ==
    \A q \in Procs :
       (/\ inflight[q].pc \notin {"idle", "finally"}
        /\ inflight[q].call.op = "create_goal"
        /\ inflight[q].local.goal_id # NULL
        /\ LoopCompletes(LoadsIfStr(inflight[q].call.roadmap))) =>
          LET g == inflight[q].local.goal_id
              N == Len(Entries(LoadsIfStr(inflight[q].call.roadmap)))
          IN /\ \A p \in Returning("get_context") :
                   (inflight[p].call.goal_id = g /\ Succeeded(inflight[p])) =>
                      Len(inflight[p].result.roadmap) = N
             /\ \A p \in Returning("create_task") :
                   (/\ inflight[p].call.goal_id = g
                    /\ Succeeded(inflight[p])
                    /\ N > 0
                    /\ \A m \in MilestonesOf(g) : ~milestones[m].is_complete) =>
                      inflight[p].result.milestone_id # NULL

\* C17: no two users share a username or an email; a create_user call that
\* returns success has inserted the user it returns; so of the calls that
\* reuse a username or an email at most one returns success.
C17_ConcurrentCreateUser ==
    /\ \A u1, u2 \in Ids(users) :
          u1 # u2 => /\ users[u1].username # users[u2].username
                     /\ users[u1].email # users[u2].email
    /\ \A p \in Returning("create_user") :
          Succeeded(inflight[p]) =>
             /\ inflight[p].result.user_id \in Ids(users)
             /\ users[inflight[p].result.user_id].username = inflight[p].call.username
             /\ users[inflight[p].result.user_id].email = inflight[p].call.email
    /\ \A p, q \in Returning("create_user") :
          (p # q /\ Succeeded(inflight[p]) /\ Succeeded(inflight[q])) =>
             /\ inflight[p].call.username # inflight[q].call.username
             /\ inflight[p].call.email # inflight[q].call.email
             /\ inflight[p].result.user_id # inflight[q].result.user_id

C17_Witness ==
    /\ Returning("create_user") = Procs
    /\ inflight[1].call.email = inflight[2].call.email
    /\ inflight[1].call.username # inflight[2].call.username
    /\ Succeeded(inflight[1])
    /\ inflight[2].result.error = IntegrityError
    /\ Len(users) = 1

\* milestone_id is the incomplete milestone of smallest order of the goal,
\* null when the goal has no incomplete milestone
SmallestIncomplete(goal_id, milestone_id) ==
    IF Incomplete(goal_id) = {}
    THEN milestone_id = NULL
    ELSE /\ milestone_id \in Incomplete(goal_id)
         /\ \A m \in Incomplete(goal_id) :
               milestones[milestone_id].order <= milestones[m].order

\* C18 as stated: the task that a create_task call commits holds the
\* incomplete milestone of smallest order of its goal at the moment of the
\* commit, null if and only if there is none at that moment.
C18_AssignedAtCommit ==
    [][Len(tasks') = Len(tasks) + 1 =>
          SmallestIncomplete(tasks'[Len(tasks')].goal_id,
                             tasks'[Len(tasks')].milestone_id)]_vars

\* C18: the task that a create_task call commits holds the milestone that
\* was the incomplete milestone of smallest order of its goal at the moment
\* the call queried it, null if and only if there was none at that moment;
\* a milestone completed or reopened between the query and the commit does
\* not change the assignment.
C18_AssignedAtQuery ==
    [][\A p \in Procs :
          /\ (inflight[p].pc = "query_milestone" /\ inflight'[p].pc = "commit_task") =>
                SmallestIncomplete(inflight[p].call.goal_id,
                                   inflight'[p].local.current_milestone)
          /\ (inflight[p].pc = "commit_task" /\ inflight'[p].pc = "refresh_task") =>
                /\ tasks' = Append(tasks, tasks'[Len(tasks')])
                /\ inflight'[p].local.task_id = Len(tasks')
                /\ tasks'[Len(tasks')].goal_id = inflight[p].call.goal_id
                /\ tasks'[Len(tasks')].milestone_id =
                      inflight[p].local.current_milestone
          /\ (\A q \in Procs : ~(/\ inflight[q].pc = "commit_task"
                                 /\ inflight'[q].pc = "refresh_task")) =>
                tasks' = tasks]_vars

\* a task committed with a milestone that was completed before the commit
C18_Witness ==
    \E t \in Ids(tasks) :
       /\ tasks[t].milestone_id # NULL
       /\ milestones[tasks[t].milestone_id].is_complete
       /\ milestones[tasks[t].milestone_id].completed_at < tasks[t].created_at
       /\ \E m \in Incomplete(tasks[t].goal_id) :
             milestones[m].order > milestones[tasks[t].milestone_id].order
====
